---- MODULE Spec2Model ----
(***************************************************************************)
(* Investor calculator: a Company table and a Financial table kept in a    *)
(* relational store, the CRUD menu over them, the bulk load from two CSV   *)
(* files and the ratio computations (investor_calculator.py).              *)
(*                                                                         *)
(* Optional values (Python None) are tuples: <<>> is None, <<v>> is v.     *)
(* Strings that the code inspects (names, typed input, CSV cells) are      *)
(* sequences of one-character strings.  Floats are small integers; a       *)
(* quotient is the exact fraction [n, d] with d > 0.                       *)
(***************************************************************************)
EXTENDS Integers, Sequences, FiniteSets, TLC

VARIABLES companies, financial, companies_csv, financial_csv, last, output

vars == <<companies, financial, companies_csv, financial_csv, last, output>>

(***************************************************************************)
(* Bounds                                                                  *)
(***************************************************************************)
\* numeric values entered or loaded lie in -1 .. MaxVal
MaxVal == 1
\* the financial CSV file holds at most MaxRows data rows
MaxRows == 2

\* rank prints results[:10]
TopN == 10

None == <<>>
Some(v) == <<v>>

Tickers == {"AAA", "BBB"}
\* the name under which each ticker is entered
NameOf(ticker) == IF ticker = "AAA" THEN <<"A", "c">> ELSE <<"a", "b">>
Sectors == {<<"T">>}
NumVals == (0 - 1) .. MaxVal

Fields == <<"ebitda", "sales", "net_profit", "market_price", "net_debt",
            "assets", "equity", "cash_equivalents", "liabilities">>
FieldSet == {Fields[i] : i \in 1..Len(Fields)}

(***************************************************************************)
(* Rows                                                                    *)
(***************************************************************************)
Company(ticker, name, sector) ==
    [ticker |-> ticker, name |-> name, sector |-> sector]

Financial(ticker, ebitda, sales, net_profit, market_price, net_debt, assets, equity, cash_equivalents, liabilities) ==
    [ticker |-> ticker, ebitda |-> ebitda, sales |-> sales,
     net_profit |-> net_profit, market_price |-> market_price,
     net_debt |-> net_debt, assets |-> assets, equity |-> equity,
     cash_equivalents |-> cash_equivalents, liabilities |-> liabilities]

\* the nine values of an input are drawn from two free values a and b
FinancialOf(ticker, a, b) ==
    Financial(ticker, a, b, a, b, b, a, b, a, b)

(***************************************************************************)
(* Session primitives.  A session works on a private copy db of the two    *)
(* tables, [c |-> companies, f |-> financial]; commit makes the copy the   *)
(* store, rollback keeps the store.                                        *)
(***************************************************************************)
Db(c, f) == [c |-> c, f |-> f]

MergeInsert(table, row) == table \cup {row}

\* session.merge: overwrite the row with the same primary key, or insert
Merge(table, row) == {r \in table : r.ticker # row.ticker} \cup {row}

RollbackKeepsSession(db, sess) == sess

\* session.rollback: the store is as before the session
Rollback(db, sess) == db

\* session.commit: the session's rows become the store
Commit(db, sess) == sess

Count(table) == Cardinality(table)

(***************************************************************************)
(* Text                                                                    *)
(***************************************************************************)
DigitChars == <<"0", "1", "2", "3", "4", "5", "6", "7", "8", "9">>

IsDigit(ch) == \E i \in 1..10 : DigitChars[i] = ch
DigitVal(ch) == (CHOOSE i \in 1..10 : DigitChars[i] = ch) - 1

\* the text of a small integer, as str() writes it
NumText(v) ==
    IF v < 0 THEN <<"-", DigitChars[(0 - v) + 1]>> ELSE <<DigitChars[v + 1]>>

BadText == <<"x">>

RECURSIVE DigitsVal(_, _)
DigitsVal(s, acc) ==
    IF s = <<>> THEN acc ELSE DigitsVal(Tail(s), 10 * acc + DigitVal(Head(s)))

AllDigits(s) == s # <<>> /\ \A i \in 1..Len(s) : IsDigit(s[i])

\* float(text) / int(text): [ok |-> FALSE] stands for ValueError
ParseNumber(s) ==
    IF AllDigits(s) THEN [ok |-> TRUE, val |-> DigitsVal(s, 0)]
    ELSE IF s # <<>> /\ Head(s) = "-" /\ AllDigits(Tail(s))
         THEN [ok |-> TRUE, val |-> 0 - DigitsVal(Tail(s), 0)]
         ELSE [ok |-> FALSE, val |-> 0]

\* get_float_input: prompt again until an entry parses
RECURSIVE get_float_input(_)
get_float_input(typed) ==
    IF ParseNumber(Head(typed)).ok THEN ParseNumber(Head(typed)).val
    ELSE get_float_input(Tail(typed))

\* what the user types at the numeric prompts of one form: for each of the two
\* free values the entries typed until one parses
TypedForms ==
    {<< <<NumText(a)>>, <<NumText(b)>> >> : a \in NumVals, b \in {0, MaxVal}}
    \cup {<< <<BadText, NumText(MaxVal)>>, <<BadText, BadText, NumText(0)>> >>}

\* the form typed in the runs in which the session raises
FaultForm == << <<NumText(MaxVal)>>, <<NumText(0)>> >>

Lower(ch) == IF ch = "A" THEN "a" ELSE IF ch = "C" THEN "c" ELSE ch
LowerText(s) == [i \in 1..Len(s) |-> Lower(s[i])]

Contains(s, frag) ==
    \E i \in 0..(Len(s) - Len(frag)) :
        \A j \in 1..Len(frag) : s[i + j] = frag[j]

\* Company.name.ilike('%frag%')
ILike(name, frag) == Contains(LowerText(name), LowerText(frag))

Perms(S) ==
    {s \in [1..Cardinality(S) -> S] : \A i, j \in 1..Cardinality(S) : s[i] = s[j] => i = j}

(***************************************************************************)
(* The record of the last operation: its name, how it ended, the force     *)
(* flag of a load, the company it selected or entered, the Financial row   *)
(* it read or the Financial values entered in a committed form, and        *)
(* whether rows it is about were in the store when it began; and what the  *)
(* operation presented.                                                    *)
(***************************************************************************)
Last(op, outcome, force, company, fin) ==
    [op |-> op, outcome |-> outcome, force |-> force, company |-> company, fin |-> fin,
     existed |-> FALSE, index |-> None, shown |-> 0, session |-> <<>>]

Existed(l, e) == [l EXCEPT !.existed = e]

\* the number of matches the search displayed and the index text it was given
Searched(l, sel) == [l EXCEPT !.index = sel.index, !.shown = sel.shown]

WithSessionLeak(body) ==
    IF body = <<>> THEN <<"open">> ELSE <<"open">> \o body \o <<"close">>

\* with Session() as session: the scope opens a session, runs the body and
\* closes the session however the body ends
WithSession(body) == <<"open">> \o body \o <<"close">>

Ran(l, body) == [l EXCEPT !.session = WithSession(body)]

NoOutput == [ratios |-> <<>>, results |-> <<>>, listing |-> <<>>]

(***************************************************************************)
(* create_company                                                          *)
(***************************************************************************)
CreateFaults == {"none", "merge_financial", "commit"}

\* the typed form and the point at which the session raises, if it does
FormRuns(faults) ==
    {[typed |-> t, fault |-> "none"] : t \in TypedForms}
    \cup {[typed |-> FaultForm, fault |-> f] : f \in faults \ {"none"}}

create_company(ticker, name, sector, typedA, typedB, fault) ==
    LET a == get_float_input(typedA)
        b == get_float_input(typedB)
        company == Company(ticker, name, Some(sector))
        fin == FinancialOf(ticker, Some(a), Some(b))
        db == Db(companies, financial)
        s1 == Db(Merge(db.c, company), db.f)
        s2 == Db(s1.c, Merge(s1.f, fin))
        after == IF fault = "none" THEN Commit(db, s2)
                 ELSE IF fault = "merge_financial" THEN Rollback(db, s1)
                 ELSE Rollback(db, s2)
    IN  /\ companies' = after.c
        /\ financial' = after.f
        /\ last' = Existed(IF fault = "none"
                           THEN Ran(Last("create", "commit", FALSE, Some(company), Some(fin)),
                                    <<"commit">>)
                           ELSE Ran(Last("create", "rollback", FALSE, Some(company), None),
                                    <<"rollback">>),
                           (\E c \in companies : c.ticker = ticker)
                           /\ (\E f \in financial : f.ticker = ticker))
        /\ output' = NoOutput
        /\ UNCHANGED <<companies_csv, financial_csv>>

(***************************************************************************)
(* company_search                                                          *)
(***************************************************************************)
Fragments == {<<"a">>, <<"C">>}
IndexTexts == {BadText, NumText(0 - 1), NumText(0), NumText(1)}

Matches(frag) == {c \in companies : ILike(c.name, frag)}

\* order is the sequence in which the store returned the matches
company_search_wraps(frag, order, indexText) ==
    LET idx == ParseNumber(indexText)
        prompted == [index |-> Some(indexText), shown |-> Len(order)]
    IN  IF order = <<>>
        THEN [status |-> "not_found", company |-> None, index |-> None, shown |-> 0]
        ELSE IF ~idx.ok THEN [status |-> "invalid_input", company |-> None] @@ prompted
        ELSE IF idx.val >= Len(order) \/ idx.val < 0 - Len(order)
             THEN [status |-> "invalid_selection", company |-> None] @@ prompted
             ELSE [status |-> "selected",
                   company |-> Some(order[IF idx.val < 0 THEN Len(order) + idx.val + 1
                                          ELSE idx.val + 1])] @@ prompted

company_search(frag, order, indexText) ==
    LET idx == ParseNumber(indexText)
        prompted == [index |-> Some(indexText), shown |-> Len(order)]
    IN  IF order = <<>>
        THEN [status |-> "not_found", company |-> None, index |-> None, shown |-> 0]
        ELSE IF ~idx.ok THEN [status |-> "invalid_input", company |-> None] @@ prompted
        ELSE IF idx.val < 0 \/ idx.val >= Len(order)
             THEN [status |-> "invalid_selection", company |-> None] @@ prompted
             ELSE [status |-> "selected", company |-> Some(order[idx.val + 1])] @@ prompted

FinancialFor(ticker) == {f \in financial : f.ticker = ticker}

(***************************************************************************)
(* Ratios                                                                  *)
(***************************************************************************)
Truthy(x) == x # None /\ x[1] # 0

Abs(n) == IF n < 0 THEN 0 - n ELSE n

RECURSIVE Gcd(_, _)
Gcd(a, b) == IF b = 0 THEN a ELSE Gcd(b, a % b)

NoneResult == [tag |-> "none", n |-> 0, d |-> 1]
Unset == [tag |-> "unset", n |-> 0, d |-> 1]
Raised(err) == [tag |-> err, n |-> 0, d |-> 1]

\* num / den
Divide(num, den) ==
    IF num = None \/ den = None THEN Raised("TypeError")
    ELSE IF den[1] = 0 THEN Raised("ZeroDivisionError")
    ELSE LET g == Gcd(Abs(num[1]), Abs(den[1]))
             sgn == IF den[1] < 0 THEN 0 - 1 ELSE 1
         IN  [tag |-> "value", n |-> (sgn * num[1]) \div g, d |-> Abs(den[1]) \div g]

RatioUnknownOnly(num, den) == IF den # None THEN Divide(num, den) ELSE NoneResult

\* num / den if den else None
Ratio(num, den) == IF Truthy(den) THEN Divide(num, den) ELSE NoneResult

RatioDefs ==
    << [name |-> "P/E", num |-> "market_price", den |-> "net_profit"],
       [name |-> "P/S", num |-> "market_price", den |-> "sales"],
       [name |-> "P/B", num |-> "market_price", den |-> "assets"],
       [name |-> "ND/EBITDA", num |-> "net_debt", den |-> "ebitda"],
       [name |-> "ROE", num |-> "net_profit", den |-> "equity"],
       [name |-> "ROA", num |-> "net_profit", den |-> "assets"],
       [name |-> "L/A", num |-> "liabilities", den |-> "assets"] >>

RatioIdx == 1..Len(RatioDefs)

RatioOf(fin, i) == Ratio(fin[RatioDefs[i].num], fin[RatioDefs[i].den])

IsRaise(r) == r.tag \in {"TypeError", "ZeroDivisionError"}

\* the seven assignments in order; the first one that raises ends the block
EvalRatios(fin) ==
    [i \in RatioIdx |->
        IF \E j \in 1..(i - 1) : IsRaise(RatioOf(fin, j)) THEN Unset ELSE RatioOf(fin, i)]

(***************************************************************************)
(* read_company                                                            *)
(***************************************************************************)
read_company(frag, order, indexText) ==
    LET sel == company_search(frag, order, indexText)
        found == IF sel.company = None THEN {} ELSE FinancialFor(sel.company[1].ticker)
    IN  /\ IF sel.company = None
           THEN /\ last' = Ran(Searched(Last("read", sel.status, FALSE, None, None), sel),
                                <<>>)
                /\ output' = NoOutput
           ELSE IF found = {}
           THEN /\ last' = Ran(Searched(Last("read", "no_financial", FALSE, sel.company, None),
                                         sel), <<>>)
                /\ output' = NoOutput
           ELSE \E fin \in found :
                LET ratios == EvalRatios(fin)
                    outcome ==
                        IF \E i \in RatioIdx : ratios[i].tag = "ZeroDivisionError"
                        THEN "zero_division"
                        ELSE IF \E i \in RatioIdx : ratios[i].tag = "TypeError"
                        THEN "error"
                        ELSE "shown"
                IN  /\ last' = Ran(Searched(Last("read", outcome, FALSE, sel.company, Some(fin)),
                                             sel), <<>>)
                    /\ output' = [NoOutput EXCEPT !.ratios = ratios]
        /\ UNCHANGED <<companies, financial, companies_csv, financial_csv>>

(***************************************************************************)
(* update_company                                                          *)
(***************************************************************************)
UpdateFaults == {"none", "commit"}

AssignSomeOnly(fin, a, b) ==
    [fin EXCEPT !.ebitda = a, !.sales = b, !.net_profit = a, !.market_price = b,
                !.net_debt = b, !.assets = a, !.equity = b, !.cash_equivalents = a]

\* the nine attribute assignments on the loaded Financial row
AssignAll(fin, a, b) == FinancialOf(fin.ticker, a, b)

update_company(frag, order, indexText) ==
    LET sel == company_search(frag, order, indexText)
        found == IF sel.company = None THEN {} ELSE FinancialFor(sel.company[1].ticker)
    IN  /\ IF sel.company = None
           THEN /\ last' = Ran(Searched(Last("update", sel.status, FALSE, None, None), sel),
                                <<>>)
                /\ UNCHANGED <<companies, financial>>
           ELSE IF found = {}
           THEN /\ last' = Ran(Searched(Last("update", "no_financial", FALSE, sel.company,
                                              None), sel), <<>>)
                /\ UNCHANGED <<companies, financial>>
           ELSE \E fin \in found, run \in FormRuns(UpdateFaults) :
                LET fault == run.fault
                    a == Some(get_float_input(run.typed[1]))
                    b == Some(get_float_input(run.typed[2]))
                    new == AssignAll(fin, a, b)
                    db == Db(companies, financial)
                    s1 == Db(db.c, (db.f \ {fin}) \cup {new})
                    after == IF fault = "none" THEN Commit(db, s1) ELSE Rollback(db, s1)
                IN  /\ companies' = after.c
                    /\ financial' = after.f
                    /\ last' = Searched(
                                 IF fault = "none"
                                 THEN Ran(Last("update", "commit", FALSE, sel.company,
                                               Some(FinancialOf(sel.company[1].ticker, a, b))),
                                          <<"commit">>)
                                 ELSE Ran(Last("update", "rollback", FALSE, sel.company, None),
                                          <<"rollback">>),
                                 sel)
        /\ output' = NoOutput
        /\ UNCHANGED <<companies_csv, financial_csv>>

(***************************************************************************)
(* delete_company                                                          *)
(***************************************************************************)
DeleteFaults == {"none", "commit"}

DeleteNoCascade(db, company) == Db(db.c \ {company}, db.f)

\* session.delete(company): the relationship's cascade deletes its Financial row
Delete(db, company) ==
    Db(db.c \ {company}, {f \in db.f : f.ticker # company.ticker})

delete_company(frag, order, indexText) ==
    LET sel == company_search(frag, order, indexText)
        db == Db(companies, financial)
    IN  /\ IF sel.company = None
           THEN /\ last' = Ran(Searched(Last("delete", sel.status, FALSE, None, None), sel),
                                <<>>)
                /\ UNCHANGED <<companies, financial>>
           ELSE \E fault \in DeleteFaults :
                LET s1 == Delete(db, sel.company[1])
                    after == IF fault = "none" THEN Commit(db, s1) ELSE Rollback(db, s1)
                IN  /\ companies' = after.c
                    /\ financial' = after.f
                    /\ last' = Existed(Ran(Searched(Last("delete",
                                                         IF fault = "none" THEN "commit"
                                                         ELSE "rollback",
                                                         FALSE, sel.company, None), sel),
                                           IF fault = "none" THEN <<"commit">>
                                           ELSE <<"rollback">>),
                                       FinancialFor(sel.company[1].ticker) # {})
        /\ output' = NoOutput
        /\ UNCHANGED <<companies_csv, financial_csv>>

(***************************************************************************)
(* list_companies                                                          *)
(***************************************************************************)
TickerOrder == <<"AAA", "BBB", "ZZZ">>
TickerRank(t) == CHOOSE i \in 1..Len(TickerOrder) : TickerOrder[i] = t

\* ORDER BY ticker
RECURSIVE OrderByTicker(_)
OrderByTicker(table) ==
    IF table = {} THEN <<>>
    ELSE LET first == CHOOSE r \in table :
                        \A q \in table : TickerRank(r.ticker) <= TickerRank(q.ticker)
         IN  <<first>> \o OrderByTicker(table \ {first})

list_companies ==
    LET ordered_companies == OrderByTicker(companies)
    IN  /\ last' = Ran(Last("list", IF ordered_companies = <<>> THEN "empty" ELSE "listed",
                            FALSE, None, None), <<>>)
        /\ output' = [NoOutput EXCEPT !.listing = ordered_companies]
        /\ UNCHANGED <<companies, financial, companies_csv, financial_csv>>

(***************************************************************************)
(* calculate_top_ten                                                       *)
(***************************************************************************)
Metrics == {"ND/EBITDA", "ROE", "ROA"}

MetricNum(metric) ==
    IF metric = "ND/EBITDA" THEN "net_debt" ELSE "net_profit"

MetricDen(metric) ==
    IF metric = "ND/EBITDA" THEN "ebitda" ELSE IF metric = "ROE" THEN "equity" ELSE "assets"

\* x[1] < y[1] for two quotients
Less(x, y) == x.n * y.d < y.n * x.d

\* the comprehension's condition: row.<num> and row.<den>
Eligible(row, metric) ==
    Truthy(row[MetricNum(metric)]) /\ Truthy(row[MetricDen(metric)])

Entry(row, metric) ==
    LET q == Divide(row[MetricNum(metric)], row[MetricDen(metric)])
    IN  [ticker |-> row.ticker, n |-> q.n, d |-> q.d]

RECURSIVE Results(_, _)
Results(rows, metric) ==
    IF rows = <<>> THEN <<>>
    ELSE (IF Eligible(Head(rows), metric) THEN <<Entry(Head(rows), metric)>> ELSE <<>>)
         \o Results(Tail(rows), metric)

\* place x behind every entry that is not smaller: descending and stable
RECURSIVE InsertDesc(_, _)
InsertDesc(sorted, x) ==
    IF sorted = <<>> THEN <<x>>
    ELSE IF Less(Head(sorted), x) THEN <<x>> \o sorted
    ELSE <<Head(sorted)>> \o InsertDesc(Tail(sorted), x)

\* results.sort(key=lambda x: x[1], reverse=True)
RECURSIVE SortDesc(_)
SortDesc(seq) ==
    IF seq = <<>> THEN <<>>
    ELSE InsertDesc(SortDesc(SubSeq(seq, 1, Len(seq) - 1)), seq[Len(seq)])

\* results[:10]
Top(seq) == SubSeq(seq, 1, IF Len(seq) < TopN THEN Len(seq) ELSE TopN)

\* rows is the sequence in which the query returned the Financial rows
calculate_top_ten(metric, rows) ==
    /\ last' = Ran(Last("rank", metric, FALSE, None, None), <<>>)
    /\ output' = [NoOutput EXCEPT !.results = Top(SortDesc(Results(rows, metric)))]
    /\ UNCHANGED <<companies, financial, companies_csv, financial_csv>>

(***************************************************************************)
(* clear_database                                                          *)
(***************************************************************************)
ClearFaults == {"none", "delete_financial", "delete_company", "commit"}

DeleteAllSkipped(table) == table

\* session.query(Model).delete(): every row of the table
DeleteAll(table) == {}

clear_database(fault) ==
    LET db == Db(companies, financial)
        s1 == Db(db.c, DeleteAll(db.f))
        s2 == Db(DeleteAll(s1.c), s1.f)
        after == IF fault = "none" THEN Commit(db, s2)
                 ELSE IF fault = "delete_financial" THEN Rollback(db, db)
                 ELSE IF fault = "delete_company" THEN Rollback(db, s1)
                 ELSE Rollback(db, s2)
    IN  /\ companies' = after.c
        /\ financial' = after.f
        /\ last' = Existed(Ran(Last("clear", IF fault = "none" THEN "commit" ELSE "rollback",
                                    FALSE, None, None),
                               IF fault = "none" THEN <<"commit">> ELSE <<"rollback">>),
                           companies # {} /\ financial # {})
        /\ output' = NoOutput
        /\ UNCHANGED <<companies_csv, financial_csv>>

(***************************************************************************)
(* insert_data                                                             *)
(***************************************************************************)
\* a CSV cell: None when the column is absent, else Some(text)
EmptyCell == Some(<<>>)

CompanyCsvRow(ticker, name, sector) ==
    [ticker |-> ticker, name |-> name, sector |-> sector]

FinancialCsvRow(ticker, ca, cb) == FinancialOf(ticker, ca, cb)

CsvFloatEmptyIsZero(cell) ==
    IF cell # None /\ cell[1] # <<>>
    THEN [ok |-> ParseNumber(cell[1]).ok, val |-> Some(ParseNumber(cell[1]).val)]
    ELSE [ok |-> TRUE, val |-> Some(0)]

\* float(row.get(k, 0)) if row.get(k) else None; [ok |-> FALSE] stands for ValueError
CsvFloat(cell) ==
    IF cell # None /\ cell[1] # <<>>
    THEN LET p == ParseNumber(cell[1])
         IN  [ok |-> p.ok, val |-> Some(p.val)]
    ELSE [ok |-> TRUE, val |-> None]

FinancialFromCsv(row) ==
    [k \in DOMAIN row |-> IF k = "ticker" THEN row.ticker ELSE CsvFloat(row[k]).val]

RowParses(row) == \A k \in FieldSet : CsvFloat(row[k]).ok

RECURSIVE MergeCompanies(_, _)
MergeCompanies(table, rows) ==
    IF rows = <<>> THEN table
    ELSE MergeCompanies(
            Merge(table, Company(Head(rows).ticker, Head(rows).name, Head(rows).sector)),
            Tail(rows))

\* merges the rows in order up to the first one that does not parse
RECURSIVE MergeFinancials(_, _)
MergeFinancials(table, rows) ==
    IF rows = <<>> THEN [ok |-> TRUE, table |-> table]
    ELSE IF ~RowParses(Head(rows)) THEN [ok |-> FALSE, table |-> table]
    ELSE MergeFinancials(Merge(table, FinancialFromCsv(Head(rows))), Tail(rows))

ShouldLoadAlways(force_reload) == TRUE

\* force_reload or session.query(Company).count() == 0
ShouldLoad(force_reload) == force_reload \/ Count(companies) = 0

LoadFaults == {"none", "commit"}

insert_data(force_reload, fault) ==
    LET db == Db(companies, financial)
    IN  /\ IF ~ShouldLoad(force_reload)
           THEN /\ last' = Ran(Last("load", "skipped", force_reload, None, None), <<>>)
                /\ UNCHANGED <<companies, financial>>
           ELSE IF companies_csv = None \/ financial_csv = None
           THEN /\ last' = Ran(Last("load", "missing", force_reload, None, None), <<>>)
                /\ UNCHANGED <<companies, financial>>
           ELSE LET s1 == Db(MergeCompanies(db.c, companies_csv[1]), db.f)
                    mf == MergeFinancials(s1.f, financial_csv[1])
                    s2 == Db(s1.c, mf.table)
                    ok == mf.ok /\ fault = "none"
                    after == IF ok THEN Commit(db, s2) ELSE Rollback(db, s2)
                IN  /\ companies' = after.c
                    /\ financial' = after.f
                    /\ last' = Ran(Last("load",
                                        IF ok THEN "commit"
                                        ELSE IF mf.ok THEN "rollback" ELSE "malformed",
                                        force_reload, None, None),
                                   IF ok THEN <<"commit">> ELSE <<"rollback">>)
        /\ output' = NoOutput
        /\ UNCHANGED <<companies_csv, financial_csv>>

(***************************************************************************)
(* Specifications                                                          *)
(***************************************************************************)
\* the data directory of the main specification
DemoCompaniesCsv ==
    Some(<< CompanyCsvRow("AAA", NameOf("AAA"), None),
            CompanyCsvRow("BBB", NameOf("BBB"), Some(<<"T">>)) >>)

DemoFinancialCsv ==
    Some(<< FinancialCsvRow("AAA", EmptyCell, Some(NumText(1))) >>)

Init ==
    /\ companies = {}
    /\ financial = {}
    /\ companies_csv = DemoCompaniesCsv
    /\ financial_csv = DemoFinancialCsv
    /\ last = Last("init", "none", FALSE, None, None)
    /\ output = NoOutput

Next ==
    \/ \E t \in Tickers, s \in Sectors, run \in FormRuns(CreateFaults) :
          create_company(t, NameOf(t), s, run.typed[1], run.typed[2], run.fault)
    \/ \E frag \in Fragments, it \in IndexTexts :
          \E order \in Perms(Matches(frag)) : read_company(frag, order, it)
    \/ \E frag \in Fragments, it \in IndexTexts :
          \E order \in Perms(Matches(frag)) : update_company(frag, order, it)
    \/ \E frag \in Fragments, it \in IndexTexts :
          \E order \in Perms(Matches(frag)) : delete_company(frag, order, it)
    \/ list_companies
    \/ \E metric \in Metrics, rows \in Perms(financial) : calculate_top_ten(metric, rows)
    \/ \E fault \in ClearFaults : clear_database(fault)
    \/ \E force \in BOOLEAN, fault \in LoadFaults : insert_data(force, fault)

Spec == Init /\ [][Next]_vars

(***************************************************************************)
(* The load specification: the store starts from a state earlier            *)
(* operations leave behind, the data directory holds any two bounded files *)
(* (or lacks them), and the operation is the load.                         *)
(***************************************************************************)
SeqsUpTo(S, n) == UNION {[1..k -> S] : k \in 0..n}

\* a cell is absent, empty, unparsable, zero or the largest value
CsvCells ==
    {None, EmptyCell, Some(BadText), Some(NumText(0)), Some(NumText(MaxVal))}

FinancialCsvRows ==
    {FinancialCsvRow(t, c, Some(NumText(MaxVal))) : t \in {"AAA", "ZZZ"}, c \in CsvCells}

\* the companies file is absent or holds the first rows of the demo file
CompanyFiles ==
    {None} \cup {Some(SubSeq(DemoCompaniesCsv[1], 1, k)) : k \in 0..Len(DemoCompaniesCsv[1])}
FinancialFiles == {None} \cup {Some(f) : f \in SeqsUpTo(FinancialCsvRows, MaxRows)}

SeedStores ==
    { Db({}, {}),
      Db({Company("AAA", NameOf("AAA"), Some(<<"T">>))},
         {FinancialOf("AAA", Some(0), Some(MaxVal))}),
      Db({Company("BBB", NameOf("BBB"), None)}, {}) }

InitLoad ==
    /\ \E seed \in SeedStores : companies = seed.c /\ financial = seed.f
    /\ companies_csv \in CompanyFiles
    /\ financial_csv \in FinancialFiles
    /\ last = Last("init", "none", FALSE, None, None)
    /\ output = NoOutput

NextLoad == \E force \in BOOLEAN, fault \in LoadFaults : insert_data(force, fault)

SpecLoad == InitLoad /\ [][NextLoad]_vars

(***************************************************************************)
(* The ratio specification: the store holds one company whose Financial    *)
(* row has any combination of unknown, zero and non-zero fields, and the   *)
(* operations are the read and the ranking.                                *)
(***************************************************************************)
\* a field is unknown, zero or non-zero
KindVals == {None, Some(0), Some(MaxVal)}

InitRatio ==
    /\ companies = {Company("AAA", NameOf("AAA"), Some(<<"T">>))}
    /\ \E ebitda, sales, net_profit, market_price, net_debt, assets, equity,
          liabilities \in KindVals :
          financial = {Financial("AAA", ebitda, sales, net_profit, market_price,
                                 net_debt, assets, equity, None, liabilities)}
    /\ companies_csv = DemoCompaniesCsv
    /\ financial_csv = DemoFinancialCsv
    /\ last = Last("init", "none", FALSE, None, None)
    /\ output = NoOutput

NextRatio ==
    \/ \E frag \in Fragments, it \in IndexTexts :
          \E order \in Perms(Matches(frag)) : read_company(frag, order, it)
    \/ \E metric \in Metrics, rows \in Perms(financial) : calculate_top_ten(metric, rows)

SpecRatio == InitRatio /\ [][NextRatio]_vars

(***************************************************************************)
(* Properties                                                              *)
(***************************************************************************)
Listed(ticker) == \E i \in 1..Len(output.results) : output.results[i].ticker = ticker

\* the claims' ranking candidate: both required fields known, denominator non-zero
RankCandidate(row, metric) ==
    /\ row[MetricNum(metric)] # None
    /\ row[MetricDen(metric)] # None
    /\ row[MetricDen(metric)][1] # 0

BadDenominator(fin, i) ==
    fin[RatioDefs[i].den] = None \/ fin[RatioDefs[i].den][1] = 0

\* C1: in read_company, for every Financial row and each of the seven ratios, a
\* ratio whose denominator field is unknown or exactly zero evaluates to unknown
\* and its computation raises no error.
C1_BadDenominatorIsUnknown ==
    (last.op = "read" /\ last.fin # None) =>
        \A i \in RatioIdx :
            BadDenominator(last.fin[1], i) =>
                /\ RatioOf(last.fin[1], i) = NoneResult
                /\ ~IsRaise(output.ratios[i])
                /\ output.ratios[i].tag # "value"

\* a read that presented its ratios, one with an unknown and one with a zero denominator
C1_Witness ==
    /\ last.op = "read"
    /\ last.outcome = "shown"
    /\ \E i, j \in RatioIdx :
          /\ last.fin[1][RatioDefs[i].den] = None
          /\ last.fin[1][RatioDefs[j].den] = Some(0)
          /\ output.ratios[i] = NoneResult
          /\ output.ratios[j] = NoneResult

\* C2: calculate_top_ten lists at most 10 entries in non-increasing order, no
\* listed value is smaller than the value of an eligible company that was left
\* out, and no company with an unknown numerator or denominator is listed.
C2_TopTenOfEligible ==
    last.op = "rank" =>
        LET metric == last.outcome
            res == output.results
        IN  /\ Len(res) <= TopN
            /\ \A i \in 1..(Len(res) - 1) : ~Less(res[i], res[i + 1])
            /\ \A f \in financial :
                  (RankCandidate(f, metric) /\ ~Listed(f.ticker)) =>
                      \A i \in 1..Len(res) : ~Less(res[i], Entry(f, metric))
            /\ \A f \in financial :
                  Listed(f.ticker) =>
                      f[MetricNum(metric)] # None /\ f[MetricDen(metric)] # None

\* C3: calculate_top_ten ranks every company whose two required fields are known
\* and whose denominator is non-zero, a zero numerator included: when at most 10
\* such companies exist, all of them are listed with their quotient.
C3_EveryCandidateRanked ==
    last.op = "rank" =>
        LET metric == last.outcome
            candidates == {f \in financial : RankCandidate(f, metric)}
        IN  Cardinality(candidates) <= TopN =>
                \A f \in candidates :
                    \E i \in 1..Len(output.results) :
                        output.results[i] = Entry(f, metric)

\* C4: upsert is idempotent by key: no ticker ever has more than one Company row
\* or more than one Financial row, and after a committed create the rows of the
\* entered ticker are exactly the entered ones.
C4_UpsertByKey ==
    /\ \A c1, c2 \in companies : c1.ticker = c2.ticker => c1 = c2
    /\ \A f1, f2 \in financial : f1.ticker = f2.ticker => f1 = f2
    /\ (last.op = "create" /\ last.outcome = "commit") =>
          /\ {c \in companies : c.ticker = last.company[1].ticker} = {last.company[1]}
          /\ FinancialFor(last.company[1].ticker) = {last.fin[1]}

\* a create of a ticker whose two rows already existed has committed
C4_Witness ==
    /\ last.op = "create"
    /\ last.outcome = "commit"
    /\ last.existed

\* C5: a committed delete of the Company with ticker t leaves no Company row and
\* no Financial row with ticker t and changes no row of any other ticker.
C5_DeleteCascades ==
    [][ (last'.op = "delete" /\ last'.outcome = "commit") =>
            LET t == last'.company[1].ticker
            IN  /\ companies' = {c \in companies : c.ticker # t}
                /\ financial' = {f \in financial : f.ticker # t} ]_vars

\* a company that had a Financial row was deleted while another ticker has rows
C5_Witness ==
    /\ last.op = "delete"
    /\ last.outcome = "commit"
    /\ last.existed
    /\ companies # {}
    /\ financial # {}

\* C6: a clear that commits leaves both tables empty; a clear in which a step
\* throws is rolled back and leaves both tables as they were.
C6_ClearAllOrNothing ==
    [][ last'.op = "clear" =>
            IF last'.outcome = "commit"
            THEN companies' = {} /\ financial' = {}
            ELSE companies' = companies /\ financial' = financial ]_vars

\* a clear of a store that held Company and Financial rows has committed
C6_Witness ==
    /\ last.op = "clear"
    /\ last.outcome = "commit"
    /\ last.existed

\* C7: a load with force = false on a store holding at least one Company row
\* writes nothing, whatever the two source files are.
C7_UnforcedLoadIsNoOp ==
    [][ (last'.op = "load" /\ ~last'.force /\ companies # {}) =>
            (companies' = companies /\ financial' = financial) ]_vars

\* an unforced load was skipped although the files hold rows the store lacks
C7_Witness ==
    /\ last.op = "load"
    /\ last.outcome = "skipped"
    /\ ~last.force
    /\ companies_csv # None
    /\ financial_csv # None
    /\ \E i \in 1..Len(companies_csv[1]) :
          \A c \in companies : c.ticker # companies_csv[1][i].ticker
    /\ \E i \in 1..Len(financial_csv[1]) :
          RowParses(financial_csv[1][i]) /\ FinancialFor(financial_csv[1][i].ticker) = {}

\* C8: a load that fails (a source file missing, an unparsable field, any
\* exception while merging or committing) leaves the store as it was.
C8_FailedLoadChangesNothing ==
    [][ (last'.op = "load" /\ last'.outcome \in {"missing", "malformed", "rollback"}) =>
            (companies' = companies /\ financial' = financial) ]_vars

\* a load failed on an unparsable field of its second financial row, after
\* company rows and a first financial row that the store lacks
C8_Witness ==
    /\ last.op = "load"
    /\ last.outcome = "malformed"
    /\ Len(companies_csv[1]) > 0
    /\ \A c \in companies : c.ticker # companies_csv[1][1].ticker
    /\ Len(financial_csv[1]) = 2
    /\ RowParses(financial_csv[1][1])
    /\ FinancialFor(financial_csv[1][1].ticker) = {}
    /\ ~RowParses(financial_csv[1][2])

\* C9: create is atomic: it either commits both entered rows or leaves both
\* tables as they were; never only one of the two rows is persisted.
C9_CreateAtomic ==
    [][ last'.op = "create" =>
            \/ /\ last'.outcome = "commit"
               /\ last'.company[1] \in companies'
               /\ last'.fin[1] \in financial'
               /\ last'.fin[1].ticker = last'.company[1].ticker
            \/ /\ last'.outcome = "rollback"
               /\ companies' = companies
               /\ financial' = financial ]_vars

\* a create was rolled back and neither row of its ticker is in the store
C9_Witness ==
    /\ last.op = "create"
    /\ last.outcome = "rollback"
    /\ \A c \in companies : c.ticker # last.company[1].ticker
    /\ FinancialFor(last.company[1].ticker) = {}
    /\ companies # {}

\* C10: an update of a selected company that has a Financial row overwrites all
\* nine fields of that row with the entered values when it commits, and changes
\* no Company row and no other Financial row; when the selected company has no
\* Financial row the operation fails and the store is unchanged.
C10_UpdateOverwritesOrFails ==
    [][ (last'.op = "update" /\ last'.company # None) =>
            LET t == last'.company[1].ticker
                rows == {f \in financial : f.ticker = t}
            IN  /\ companies' = companies
                /\ IF rows = {}
                   THEN last'.outcome = "no_financial" /\ financial' = financial
                   ELSE \/ /\ last'.outcome = "commit"
                           /\ financial' = (financial \ rows) \cup {last'.fin[1]}
                           /\ last'.fin[1].ticker = t
                        \/ /\ last'.outcome = "rollback"
                           /\ financial' = financial ]_vars

\* an update committed values while the other ticker also has a Financial row
C10_Witness ==
    /\ last.op = "update"
    /\ last.outcome = "commit"
    /\ last.fin[1] \in financial
    /\ \E f \in financial : f.ticker # last.fin[1].ticker

\* C11: read_company on a selected company reports "no financial data" and
\* presents no ratio when the ticker has no Financial row; otherwise, for every
\* Financial row, an unknown numerator with a known non-zero denominator
\* included, it presents all seven ratios, each as the quotient or as unknown.
C11_ReadPresentsSevenRatios ==
    (last.op = "read" /\ last.company # None) =>
        IF FinancialFor(last.company[1].ticker) = {}
        THEN last.outcome = "no_financial" /\ output.ratios = <<>>
        ELSE /\ last.outcome = "shown"
             /\ Len(output.ratios) = Len(RatioDefs)
             /\ \A i \in RatioIdx :
                   LET num == last.fin[1][RatioDefs[i].num]
                       den == last.fin[1][RatioDefs[i].den]
                   IN  IF num # None /\ den # None /\ den[1] # 0
                       THEN output.ratios[i] = Divide(num, den)
                       ELSE output.ratios[i] = NoneResult

\* a stored value is what the cell's text says: unknown for an absent or empty
\* cell, the number for a numeric text
CellStoredAs(cell, stored) ==
    \/ cell \in {None, EmptyCell} /\ stored = None
    \/ \E v \in NumVals : cell = Some(NumText(v)) /\ stored = Some(v)

CompanyRowStored(row) == Company(row.ticker, row.name, row.sector) \in companies

FinancialRowStored(row) ==
    \E f \in financial :
        f.ticker = row.ticker /\ \A k \in FieldSet : CellStoredAs(row[k], f[k])

LastOfTicker(rows, i) == \A j \in (i + 1)..Len(rows) : rows[j].ticker # rows[i].ticker

\* C12 as stated: after a load that commits, every company row of the source is
\* stored with its ticker, name and sector and every financial row is stored
\* with its parsed values, an empty or missing cell as unknown, "0" as zero.
C12_EveryRowStored ==
    (last.op = "load" /\ last.outcome = "commit") =>
        /\ \A i \in 1..Len(companies_csv[1]) : CompanyRowStored(companies_csv[1][i])
        /\ \A i \in 1..Len(financial_csv[1]) : FinancialRowStored(financial_csv[1][i])

\* C12 amended: after a load that commits, every source row that is the last
\* row of its ticker in its file is stored with its values (an empty or missing
\* cell as unknown, "0" as zero); an earlier row of the same ticker is overwritten.
C12_LastRowOfTickerStored ==
    (last.op = "load" /\ last.outcome = "commit") =>
        /\ \A i \in 1..Len(companies_csv[1]) :
              LastOfTicker(companies_csv[1], i) => CompanyRowStored(companies_csv[1][i])
        /\ \A i \in 1..Len(financial_csv[1]) :
              LastOfTicker(financial_csv[1], i) => FinancialRowStored(financial_csv[1][i])

\* a committed load of two company rows and two financial rows of different
\* tickers, one with an empty cell and one with the cell "0"
C12_Witness ==
    /\ last.op = "load"
    /\ last.outcome = "commit"
    /\ Len(companies_csv[1]) = 2
    /\ Len(financial_csv[1]) = 2
    /\ financial_csv[1][1].ticker # financial_csv[1][2].ticker
    /\ financial_csv[1][1].ebitda = EmptyCell
    /\ financial_csv[1][2].ebitda = Some(NumText(0))
    /\ \E f \in financial : f.ebitda = None
    /\ \E f \in financial : f.ebitda = Some(0)

\* the index text names no displayed match: it is no number, a negative number,
\* or a number not below the number of matches shown
BadIndex(l) ==
    /\ l.index # None
    /\ \/ l.index[1] = BadText
       \/ \E v \in NumVals : l.index[1] = NumText(v) /\ (v < 0 \/ v >= l.shown)

SearchOps == {"read", "update", "delete"}

\* C13: a read, update or delete whose search is given a non-numeric, negative
\* or too large index selects no company, ends as an invalid-input or
\* invalid-selection outcome and leaves the store unchanged; a fragment that
\* matches no company name ends as not found with the store unchanged.
C13_BadSelectionWritesNothing ==
    [][(last'.op \in SearchOps /\ (BadIndex(last') \/ last'.shown = 0)) =>
          /\ last'.company = None
          /\ last'.outcome = IF last'.shown = 0 THEN "not_found"
                             ELSE IF last'.index[1] = BadText THEN "invalid_input"
                             ELSE "invalid_selection"
          /\ UNCHANGED <<companies, financial>>]_vars

\* a delete that was shown two matches and given the index -1, with both
\* companies and a Financial row still stored
C13_Witness ==
    /\ last.op = "delete"
    /\ last.shown = 2
    /\ last.index = Some(NumText(0 - 1))
    /\ last.outcome = "invalid_selection"
    /\ Count(companies) = 2
    /\ financial # {}

Occurrences(seq, e) == Cardinality({i \in 1..Len(seq) : seq[i] = e})

\* one session was opened, it was closed last, and nothing else was opened
OneSessionClosed(session) ==
    /\ Len(session) >= 2
    /\ session[1] = "open"
    /\ session[Len(session)] = "close"
    /\ Occurrences(session, "open") = 1
    /\ Occurrences(session, "close") = 1

\* C14: every operation opens exactly one session and closes it on every path
\* (commit, rollback, early return), so none is open when the menu is shown
\* again; and the store changes only in an operation whose session committed.
C14_OneSessionPerOperation ==
    [][/\ OneSessionClosed(last'.session)
       /\ (<<companies, financial>>' # <<companies, financial>>) =>
              Occurrences(last'.session, "commit") = 1]_vars

\* an update of an existing Financial row that failed at commit: the session
\* rolled back and was closed, the row is still in the store
C14_Witness ==
    /\ last.op = "update"
    /\ last.outcome = "rollback"
    /\ last.session = <<"open", "rollback", "close">>
    /\ last.company # None
    /\ FinancialFor(last.company[1].ticker) # {}

\* C15: every Financial row's ticker is the ticker of a stored Company row.
C15_FinancialHasCompany ==
    \A f \in financial : \E c \in companies : c.ticker = f.ticker

====
